---------------------------- MODULE Spec2Model ----------------------------
(***************************************************************************)
(* Model of the section-inference core of SectionDetector                   *)
(* (src/src/section_detector.py): the significance filter, the stable sort *)
(* by rect.top, the clustering scan, _merge_close_sections and             *)
(* _create_section_objects with _classify_section.                         *)
(*                                                                         *)
(* Texts and markup are TLA+ strings, so strip(), lower(), len(), the `in` *)
(* substring test and the [:200] slice are computed on the characters.     *)
(* Geometry is integer valued; the 0.4 ratio test is cross-multiplied.     *)
(*                                                                         *)
(* Spec is the core run on one element list. SpecBrowser is the browser    *)
(* of one detector (initialize, close) under concurrent detect_sections    *)
(* calls; each specification leaves the other's variables alone.           *)
(***************************************************************************)
EXTENDS Integers, Sequences, FiniteSets, TLC

VARIABLES
    elements,              \* the list handed to _group_elements_into_sections
    pc,                    \* position in the pipeline
    significant_elements,  \* survivors of the filter, in input order
    sorted_elements,       \* sorted(significant_elements, key = rect.top)
    k,                     \* index of the next element of the clustering scan
    current_section,       \* <<>> is None, <<s>> the open provisional section
    sections,              \* the clusterer's result list (mutated by the merger)
    merged,                \* the merger's result list / sections_data
    i,                     \* outer index of the merger (1-based)
    j,                     \* lookahead index of the merger (1-based)
    merged_section,        \* <<>> or <<m>>: the shallow copy being extended
    ci,                    \* enumerate index of _create_section_objects (1-based)
    section_objects,       \* the Section list being built / returned
    browser,               \* self.browser: None or the browser assigned last
    playwright,            \* self.playwright: None or the instance assigned last
    calls,                 \* the detect_sections* calls in flight, by number
    started,               \* Playwright instances started so far
    launched,              \* browsers launched so far
    open_browsers,         \* launched browsers not closed yet
    detector_closed        \* close() has run

core_vars == <<elements, pc, significant_elements, sorted_elements, k,
               current_section, sections, merged, i, j, merged_section, ci,
               section_objects>>

browser_vars == <<browser, playwright, calls, started, launched,
                  open_browsers, detector_closed>>

vars == <<elements, pc, significant_elements, sorted_elements, k,
          current_section, sections, merged, i, j, merged_section, ci,
          section_objects, browser, playwright, calls, started, launched,
          open_browsers, detector_closed>>

\* Longest input list drawn in Init.
MaxElems == 3

\* Number of concurrent detect_sections / detect_sections_from_url calls.
NumCalls == 2

---------------------------------------------------------------------------
(* str methods used by the code *)

Whitespace == {" ", "\t", "\n", "\r", "\f"}

RECURSIVE LStrip(_)
LStrip(s) ==
    IF Len(s) > 0 /\ SubSeq(s, 1, 1) \in Whitespace
    THEN LStrip(SubSeq(s, 2, Len(s)))
    ELSE s

RECURSIVE RStrip(_)
RStrip(s) ==
    IF Len(s) > 0 /\ SubSeq(s, Len(s), Len(s)) \in Whitespace
    THEN RStrip(SubSeq(s, 1, Len(s) - 1))
    ELSE s

\* str.strip()
Strip(s) == RStrip(LStrip(s))

UpperChars == "ABCDEFGHIJKLMNOPQRSTUVWXYZ"
LowerChars == "abcdefghijklmnopqrstuvwxyz"

LowerOf ==
    [c \in {SubSeq(UpperChars, n, n) : n \in 1..26} |->
        LET n == CHOOSE m \in 1..26 : SubSeq(UpperChars, m, m) = c
        IN  SubSeq(LowerChars, n, n)]

LowerChar(c) == IF c \in DOMAIN LowerOf THEN LowerOf[c] ELSE c

\* str.lower(), character by character (halving keeps the recursion shallow)
RECURSIVE Lower(_)
Lower(s) ==
    IF Len(s) = 0 THEN s
    ELSE IF Len(s) = 1 THEN LowerChar(s)
    ELSE LET h == Len(s) \div 2
         IN  Lower(SubSeq(s, 1, h)) \o Lower(SubSeq(s, h + 1, Len(s)))

\* `w in t` for strings
Contains(t, w) ==
    \E n \in 1..(Len(t) - Len(w) + 1) : SubSeq(t, n, n + Len(w) - 1) = w

\* Faulty variant: the preview keeps the whole text.
PrefixWhole(s, n) == s

\* s[:n]
Prefix(s, n) == SubSeq(s, 1, IF Len(s) < n THEN Len(s) ELSE n)

\* `x in lst` for lists
InList(x, lst) == \E n \in 1..Len(lst) : lst[n] = x

Min(a, b) == IF a < b THEN a ELSE b
Max(a, b) == IF a > b THEN a ELSE b
Abs(a) == IF a < 0 THEN -a ELSE a

---------------------------------------------------------------------------
(* Element records: the dicts built by the page script *)

PlainStyle ==
    [marginTop |-> 0, marginBottom |-> 0, paddingTop |-> 0, paddingBottom |-> 0,
     backgroundColor |-> "rgba(0, 0, 0, 0)",
     borderTop |-> "0px none", borderBottom |-> "0px none"]

PaddedStyle == [PlainStyle EXCEPT !.paddingTop = 40]

Element(top, left, width, height, text, img, vid, styles, html) ==
    [rect |-> [top |-> top, left |-> left, width |-> width, height |-> height],
     textContent |-> text, outerHTML |-> html, styles |-> styles,
     hasImages |-> img, hasVideos |-> vid]

NavText   == "Main navigation menu for the site"
ParaText  == "Read more about all of our products"
AsideText == "Welcome to our product overview page"
MainText  == "This is the main content area with lots of text content that keeps going well past one hundred characters long"

ElHeader == Element(0, 200, 1000, 100, "Header nav", FALSE, FALSE, PlainStyle, "<header>")
ElHero   == Element(500, 0, 1000, 400, "Hero banner", TRUE, FALSE, PlainStyle, "<section>")
ElFooter == Element(950, 0, 1000, 80, "Copyright 2024", FALSE, FALSE, PlainStyle, "<footer>")
ElNav    == Element(0, 100, 200, 50, NavText, FALSE, FALSE, PlainStyle, "<nav>")
ElPara   == Element(20, 100, 200, 50, ParaText, FALSE, FALSE, PlainStyle, "<p>")
ElPhoto  == Element(20, 50, 300, 50, "", TRUE, FALSE, PlainStyle, "<img>")
ElLink   == Element(20, 160, 80, 50, "Privacy policy", FALSE, FALSE, PlainStyle, "<a>")
ElThumb  == Element(500, 0, 60, 60, "Hero banner", TRUE, FALSE, PlainStyle, "<section>")
ElShort  == Element(60, 100, 200, 60, "   Short    ", FALSE, FALSE, PlainStyle, "<span>")
ElMain   == Element(160, 300, 700, 200, MainText, FALSE, FALSE, PaddedStyle, "<main>")
ElAside  == Element(160, 0, 250, 600, AsideText, FALSE, FALSE, PlainStyle, "<aside>")
ElBadge  == Element(0, 0, 90, 60, "", FALSE, TRUE, PlainStyle, "<iframe>")
ElStrip  == Element(300, 0, 400, 35, "", TRUE, FALSE, PlainStyle, "<picture>")

\* A record that lacks the "styles" key.
BareText == "Customer stories from around the globe"
ElBare ==
    [rect |-> [top |-> 300, left |-> 0, width |-> 600, height |-> 120],
     textContent |-> BareText, outerHTML |-> "<article>",
     hasImages |-> FALSE, hasVideos |-> FALSE]

Catalog == {ElHeader, ElHero, ElFooter, ElNav, ElPara, ElLink, ElThumb,
            ElShort, ElMain, ElAside, ElBadge, ElPhoto, ElStrip, ElBare}

Inputs == UNION {[1..n -> Catalog] : n \in 0..MaxElems}

\* The filter of the page script: what the renderer hands to the core.
Admitted(el) ==
    /\ el.rect.width > 50
    /\ el.rect.height > 50
    /\ (Len(el.textContent) > 0 \/ el.hasImages \/ el.hasVideos)

---------------------------------------------------------------------------
(* _group_elements_into_sections: filter and sort *)

\* Faulty variant: the filter without its third test (text shorter than 10).
IsSignificantAnyText(element) ==
    /\ ~(element.rect.width < 80 \/ element.rect.height < 40)
    /\ ~(Strip(element.textContent) = "" /\ ~element.hasImages /\ ~element.hasVideos)

\* Faulty variant: the filter without its height test.
IsSignificantAnyHeight(element) ==
    /\ ~(element.rect.width < 80)
    /\ ~(Strip(element.textContent) = "" /\ ~element.hasImages /\ ~element.hasVideos)
    /\ ~(Len(Strip(element.textContent)) < 10
            /\ ~element.hasImages /\ ~element.hasVideos)

\* The three `continue` tests of the filter loop, negated.
IsSignificant(element) ==
    /\ ~(element.rect.width < 80 \/ element.rect.height < 40)
    /\ ~(Strip(element.textContent) = "" /\ ~element.hasImages /\ ~element.hasVideos)
    /\ ~(Len(Strip(element.textContent)) < 10
            /\ ~element.hasImages /\ ~element.hasVideos)

RECURSIVE FilterSignificant(_)
FilterSignificant(els) ==
    IF els = <<>> THEN <<>>
    ELSE (IF IsSignificant(Head(els)) THEN <<Head(els)>> ELSE <<>>)
            \o FilterSignificant(Tail(els))

\* Insert el behind every element whose top is <= its own: a stable sort.
RECURSIVE InsertByTop(_, _)
InsertByTop(srt, el) ==
    IF srt = <<>> THEN <<el>>
    ELSE IF Head(srt).rect.top <= el.rect.top
         THEN <<Head(srt)>> \o InsertByTop(Tail(srt), el)
         ELSE <<el>> \o srt

RECURSIVE SortAcc(_, _)
SortAcc(acc, els) ==
    IF els = <<>> THEN acc
    ELSE SortAcc(InsertByTop(acc, Head(els)), Tail(els))

\* Faulty variant: the list is scanned in input order, unsorted.
SortedByTopKeepsOrder(els) == els

\* sorted(significant_elements, key=lambda x: x["rect"]["top"])
SortedByTop(els) == SortAcc(<<>>, els)

---------------------------------------------------------------------------
(* _group_elements_into_sections: the clustering scan *)

\* element.get("styles", {}): the empty dict when the key is absent
GetStyles(element) ==
    IF "styles" \in DOMAIN element THEN element.styles ELSE <<>>

\* The keys _has_significant_styling subscripts, in the order of its `or`
\* chain, and the test made on each.
StyleKeys ==
    <<"marginTop", "marginBottom", "paddingTop", "paddingBottom",
      "backgroundColor", "borderTop", "borderBottom">>

StyleTest(styles, n) ==
    CASE n \in 1..4 -> styles[StyleKeys[n]] > 20
      [] n = 5 -> styles[StyleKeys[n]] \notin {"rgba(0, 0, 0, 0)", "transparent"}
      [] OTHER -> styles[StyleKeys[n]] # "0px none"

\* _has_significant_styling raises KeyError: a key is absent and no earlier
\* test of the chain was true.
RECURSIVE StylingRaisesFrom(_, _)
StylingRaisesFrom(styles, n) ==
    IF n > Len(StyleKeys) THEN FALSE
    ELSE IF StyleKeys[n] \notin DOMAIN styles THEN TRUE
    ELSE IF StyleTest(styles, n) THEN FALSE
    ELSE StylingRaisesFrom(styles, n + 1)

StylingRaises(styles) == StylingRaisesFrom(styles, 1)

\* _has_significant_styling, when it returns
HasSignificantStyling(styles) ==
    \/ styles.marginTop > 20
    \/ styles.marginBottom > 20
    \/ styles.paddingTop > 20
    \/ styles.paddingBottom > 20
    \/ styles.backgroundColor \notin {"rgba(0, 0, 0, 0)", "transparent"}
    \/ styles.borderTop # "0px none"
    \/ styles.borderBottom # "0px none"

\* gap = rect["top"] - current_bottom
Gap(cur, element) == element.rect.top - (cur.bounds.top + cur.bounds.height)

\* horizontal_distance > max(rect["width"], bounds["width"]) * 0.4, with both
\* sides multiplied by 10 (centers are left + width / 2).
FarFromCenter(cur, element) ==
    5 * Abs((2 * cur.bounds.left + cur.bounds.width)
              - (2 * element.rect.left + element.rect.width))
        > 4 * Max(element.rect.width, cur.bounds.width)

HasMedia(x) == x.hasImages \/ x.hasVideos

\* Faulty variant: the media status of section and element is not compared.
ShouldStartNewSectionNoMedia(cur, element) ==
    \/ Gap(cur, element) > 100
    \/ (Gap(cur, element) <= 100 /\ Gap(cur, element) > 50
            /\ FarFromCenter(cur, element))
    \/ HasSignificantStyling(GetStyles(element))

\* Faulty variant: the moderate-gap test without the comparison of centers.
ShouldStartNewSectionNoCenters(cur, element) ==
    \/ Gap(cur, element) > 100
    \/ (HasMedia(cur) # HasMedia(element)
            /\ (Strip(element.textContent) # "" \/ HasMedia(element)))
    \/ HasSignificantStyling(GetStyles(element))

\* The else-branch that computes should_start_new_section for an open section.
ShouldStartNewSection(cur, element) ==
    \/ Gap(cur, element) > 100
    \/ (Gap(cur, element) <= 100 /\ Gap(cur, element) > 50
            /\ FarFromCenter(cur, element))
    \/ (HasMedia(cur) # HasMedia(element)
            /\ (Strip(element.textContent) # "" \/ HasMedia(element)))
    \/ HasSignificantStyling(GetStyles(element))

\* should_start_new_section, current_section being <<>> for None
StartsNew(current, element) ==
    IF current = <<>> THEN TRUE ELSE ShouldStartNewSection(current[1], element)

\* The iteration ends in a KeyError: the styling check at line 233 is inside
\* the else-branch, so it is made only when a section is open.
ScanRaises(current, element) ==
    IF current = <<>> THEN FALSE ELSE StylingRaises(GetStyles(element))

\* Faulty variant: every closed section is kept, whatever its content.
HasSubstantialContentAlways(sec) == TRUE

\* Faulty variant: the text threshold of the filter (10) used for the save.
HasSubstantialContentOver10(sec) ==
    Len(Strip(sec.content)) > 10 \/ sec.hasImages \/ sec.hasVideos

\* len(content.strip()) > 30 or has_images or has_videos
HasSubstantialContent(sec) ==
    Len(Strip(sec.content)) > 30 \/ sec.hasImages \/ sec.hasVideos

\* "Save current section if it has meaningful content" and "Add final section"
SaveSection(secs, current) ==
    IF current # <<>> /\ current[1].elementCount > 0
            /\ HasSubstantialContent(current[1])
    THEN Append(secs, current[1])
    ELSE secs

\* The dict literal of "Start new section"; secs is the list after the save.
NewSection(secs, element) ==
    [id |-> Len(secs) + 1,
     bounds |-> [top |-> element.rect.top, left |-> element.rect.left,
                 width |-> element.rect.width, height |-> element.rect.height],
     elements |-> <<element.outerHTML>>,
     elementCount |-> 1,
     content |-> Strip(element.textContent),
     hasImages |-> element.hasImages,
     hasVideos |-> element.hasVideos]

\* "Only add substantial elements"
IsSubstantial(element) ==
    /\ element.rect.width > 80
    /\ element.rect.height > 40
    /\ (Strip(element.textContent) # "" \/ element.hasImages \/ element.hasVideos)

\* "Update section bounds to include this element": top and left are
\* assigned first and the new values are read by width and height.
ExpandBounds(b, rect) ==
    LET top  == Min(b.top, rect.top)
        left == Min(b.left, rect.left)
    IN  [top |-> top, left |-> left,
         width  |-> Max(b.width, rect.left + rect.width - left),
         height |-> Max(b.height, rect.top + rect.height - top)]

\* "Add to current section"
AddToSection(cur, element) ==
    IF IsSubstantial(element) /\ ~InList(element.outerHTML, cur.elements)
    THEN [cur EXCEPT
            !.elements = Append(@, element.outerHTML),
            !.elementCount = @ + 1,
            !.bounds = ExpandBounds(@, element.rect),
            !.content = IF Strip(element.textContent) # ""
                        THEN @ \o " " \o Strip(element.textContent) ELSE @,
            !.hasImages = @ \/ element.hasImages,
            !.hasVideos = @ \/ element.hasVideos]
    ELSE cur

\* One iteration of `for element in sorted_elements` on (sections, current).
ScanStep(st, element) ==
    IF StartsNew(st.current, element)
    THEN LET saved == SaveSection(st.sections, st.current)
         IN  [sections |-> saved, current |-> <<NewSection(saved, element)>>]
    ELSE [sections |-> st.sections,
          current |-> <<AddToSection(st.current[1], element)>>]

\* What stands for an exception that left the function.
KeyError == [raised |-> "KeyError"]

\* The loop: the state after the last element, or KeyError.
RECURSIVE ScanAll(_, _)
ScanAll(st, els) ==
    IF els = <<>> THEN st
    ELSE IF ScanRaises(st.current, Head(els)) THEN KeyError
    ELSE ScanAll(ScanStep(st, Head(els)), Tail(els))

---------------------------------------------------------------------------
(* _merge_close_sections *)

\* Faulty variant: only a gap of 0..29 merges, an overlap does not.
ShouldMergeNoOverlap(current, next_section) ==
    LET gap == next_section.bounds.top
                 - (current.bounds.top + current.bounds.height)
    IN  gap >= 0 /\ gap < 30

\* Faulty variant: the distance is taken without its sign.
ShouldMergeAbsGap(current, next_section) ==
    Abs(next_section.bounds.top
          - (current.bounds.top + current.bounds.height)) < 30

\* gap < 30, current's bounds being the dict the copy shares
ShouldMerge(current, next_section) ==
    next_section.bounds.top - (current.bounds.top + current.bounds.height) < 30

\* Faulty variant: a merge counts the absorbed section as one element.
MergeIntoCountingOne(m, next_section) ==
    [m EXCEPT
        !.bounds = [@ EXCEPT
            !.height = next_section.bounds.top + next_section.bounds.height
                          - m.bounds.top,
            !.width = Max(m.bounds.width, next_section.bounds.width)],
        !.elements = @ \o next_section.elements,
        !.elementCount = @ + 1,
        !.content = @ \o " " \o next_section.content,
        !.hasImages = @ \/ next_section.hasImages,
        !.hasVideos = @ \/ next_section.hasVideos]

\* "Merge the sections": the assignments to merged_section
MergeInto(m, next_section) ==
    LET elems == m.elements \o next_section.elements
    IN  [m EXCEPT
            !.bounds = [@ EXCEPT
                !.height = next_section.bounds.top + next_section.bounds.height
                              - m.bounds.top,
                !.width = Max(m.bounds.width, next_section.bounds.width)],
            !.elements = elems,
            !.elementCount = Len(elems),
            !.content = @ \o " " \o next_section.content,
            !.hasImages = @ \/ next_section.hasImages,
            !.hasVideos = @ \/ next_section.hasVideos]

\* The inner while loop from lookahead index n: <<merged_section, j>> at its end.
RECURSIVE LookAhead(_, _, _)
LookAhead(m, secs, n) ==
    IF n <= Len(secs) /\ ShouldMerge(m, secs[n])
    THEN LookAhead(MergeInto(m, secs[n]), secs, n + 1)
    ELSE <<m, n>>

\* The outer while loop from index n.
RECURSIVE MergeFrom(_, _)
MergeFrom(secs, n) ==
    IF n > Len(secs) THEN <<>>
    ELSE LET r == LookAhead(secs[n], secs, n + 1)
         IN  <<r[1]>> \o MergeFrom(secs, r[2])

MergeCloseSections(secs) ==
    IF Len(secs) <= 1 THEN secs ELSE MergeFrom(secs, 1)

\* _group_elements_into_sections as a function of its argument
GroupElementsIntoSections(els) ==
    IF els = <<>> THEN <<>>
    ELSE LET sig == FilterSignificant(els)
         IN  IF sig = <<>> THEN <<>>
             ELSE LET st == ScanAll([sections |-> <<>>, current |-> <<>>],
                                    SortedByTop(sig))
                  IN  IF "raised" \in DOMAIN st THEN <<KeyError>>
                      ELSE MergeCloseSections(
                               SaveSection(st.sections, st.current))

---------------------------------------------------------------------------
(* _classify_section and _create_section_objects *)

ContainsAny(text, words) == \E w \in words : Contains(text, w)

\* Faulty variant: the hero rule without its media test.
ClassifySectionHeroAnyMedia(section_data) ==
    LET text   == Lower(section_data.content)
        bounds == section_data.bounds
    IN  IF bounds.top < 200
              /\ ContainsAny(text, {"menu", "nav", "header", "navigation"})
        THEN "header"
        ELSE IF ContainsAny(text, {"footer", "copyright", "privacy", "terms"})
        THEN "footer"
        ELSE IF bounds.height > 300
        THEN "hero"
        ELSE IF Len(section_data.content) > 100
        THEN "content"
        ELSE IF bounds.width < 300 /\ bounds.height > 500
        THEN "sidebar"
        ELSE "section"

\* Faulty variant: no final return, so the fall-through yields None.
ClassifySectionNoDefault(section_data) ==
    LET text   == Lower(section_data.content)
        bounds == section_data.bounds
    IN  IF bounds.top < 200
              /\ ContainsAny(text, {"menu", "nav", "header", "navigation"})
        THEN "header"
        ELSE IF ContainsAny(text, {"footer", "copyright", "privacy", "terms"})
        THEN "footer"
        ELSE IF bounds.height > 300
                  /\ (section_data.hasImages \/ section_data.hasVideos)
        THEN "hero"
        ELSE IF Len(section_data.content) > 100
        THEN "content"
        ELSE IF bounds.width < 300 /\ bounds.height > 500
        THEN "sidebar"
        ELSE "None"

ClassifySection(section_data) ==
    LET text   == Lower(section_data.content)
        bounds == section_data.bounds
    IN  IF bounds.top < 200
              /\ ContainsAny(text, {"menu", "nav", "header", "navigation"})
        THEN "header"
        ELSE IF ContainsAny(text, {"footer", "copyright", "privacy", "terms"})
        THEN "footer"
        ELSE IF bounds.height > 300
                  /\ (section_data.hasImages \/ section_data.hasVideos)
        THEN "hero"
        ELSE IF Len(section_data.content) > 100
        THEN "content"
        ELSE IF bounds.width < 300 /\ bounds.height > 500
        THEN "sidebar"
        ELSE "section"

\* Faulty variant: the size test without the width threshold.
IsTooSmallIgnoringWidth(section_data) ==
    \/ section_data.bounds.height < 30
    \/ (Len(Strip(section_data.content)) < 10
            /\ ~section_data.hasImages /\ ~section_data.hasVideos)

\* "Filter out sections that are too small or have no content"
IsTooSmall(section_data) ==
    \/ section_data.bounds.height < 30
    \/ section_data.bounds.width < 100
    \/ (Len(Strip(section_data.content)) < 10
            /\ ~section_data.hasImages /\ ~section_data.hasVideos)

\* Section(id=i + 1, ...), idx being i + 1 of enumerate(sections_data)
SectionId(idx, nkept) == idx

MakeSection(idx, nkept, section_data) ==
    [id |-> SectionId(idx, nkept),
     type |-> ClassifySection(section_data),
     content |-> Prefix(section_data.content, 200),
     html_elements |-> section_data.elements,
     bounds |-> section_data.bounds,
     metadata |-> [hasImages |-> section_data.hasImages,
                   hasVideos |-> section_data.hasVideos,
                   elementCount |-> section_data.elementCount]]

\* Faulty variant: a kept section is put in front of the list.
CreateStepPrepend(objs, idx, section_data) ==
    IF IsTooSmall(section_data) THEN objs
    ELSE <<MakeSection(idx, Len(objs), section_data)>> \o objs

\* One iteration of the enumerate loop on the list built so far.
CreateStep(objs, idx, section_data) ==
    IF IsTooSmall(section_data) THEN objs
    ELSE Append(objs, MakeSection(idx, Len(objs), section_data))

RECURSIVE CreateFrom(_, _, _)
CreateFrom(objs, data, idx) ==
    IF idx > Len(data) THEN objs
    ELSE CreateFrom(CreateStep(objs, idx, data[idx]), data, idx + 1)

CreateSectionObjects(sections_data) == CreateFrom(<<>>, sections_data, 1)

\* A result that is the exception, not a list of sections.
IsRaised(result) == Len(result) = 1 /\ "raised" \in DOMAIN result[1]

\* The core as one function: the Section list for an element list, or the
\* exception that _group_elements_into_sections let out.
DetectFromElements(els) ==
    LET sections_data == GroupElementsIntoSections(els)
    IN  IF IsRaised(sections_data) THEN sections_data
        ELSE CreateSectionObjects(sections_data)

---------------------------------------------------------------------------
(* The pipeline as a state machine *)

None == 0

\* __init__, and nothing started, launched or closed yet.
DetectorConstructed ==
    /\ browser = None
    /\ playwright = None
    /\ started = 0
    /\ launched = 0
    /\ open_browsers = {}
    /\ detector_closed = FALSE

Init ==
    /\ elements \in Inputs
    /\ pc = "filter"
    /\ significant_elements = <<>>
    /\ sorted_elements = <<>>
    /\ k = 1
    /\ current_section = <<>>
    /\ sections = <<>>
    /\ merged = <<>>
    /\ i = 1
    /\ j = 1
    /\ merged_section = <<>>
    /\ ci = 1
    /\ section_objects = <<>>
    /\ DetectorConstructed
    /\ calls = <<>>

\* Lines 151-182: the early returns and the filter loop.
FilterElements ==
    /\ pc = "filter"
    /\ LET sig == IF elements = <<>> THEN <<>> ELSE FilterSignificant(elements)
       IN  /\ significant_elements' = sig
           /\ pc' = IF sig = <<>> THEN "create" ELSE "sort"
    /\ UNCHANGED browser_vars
    /\ UNCHANGED <<elements, sorted_elements, k, current_section, sections,
                   merged, i, j, merged_section, ci, section_objects>>

\* Line 185.
SortElements ==
    /\ pc = "sort"
    /\ sorted_elements' = SortedByTop(significant_elements)
    /\ pc' = "scan"
    /\ UNCHANGED browser_vars
    /\ UNCHANGED <<elements, significant_elements, k, current_section, sections,
                   merged, i, j, merged_section, ci, section_objects>>

\* Lines 236-260: an iteration that starts a new section.
StartNewSection ==
    /\ pc = "scan"
    /\ k <= Len(sorted_elements)
    /\ ~ScanRaises(current_section, sorted_elements[k])
    /\ StartsNew(current_section, sorted_elements[k]) = TRUE
    /\ LET st == ScanStep([sections |-> sections, current |-> current_section],
                          sorted_elements[k])
       IN  /\ sections' = st.sections
           /\ current_section' = st.current
    /\ k' = k + 1
    /\ UNCHANGED browser_vars
    /\ UNCHANGED <<elements, pc, significant_elements, sorted_elements, merged,
                   i, j, merged_section, ci, section_objects>>

\* Lines 261-305: an iteration that folds (or skips) the element.
AddToCurrentSection ==
    /\ pc = "scan"
    /\ k <= Len(sorted_elements)
    /\ ~ScanRaises(current_section, sorted_elements[k])
    /\ StartsNew(current_section, sorted_elements[k]) = FALSE
    /\ LET st == ScanStep([sections |-> sections, current |-> current_section],
                          sorted_elements[k])
       IN  /\ sections' = st.sections
           /\ current_section' = st.current
    /\ k' = k + 1
    /\ UNCHANGED browser_vars
    /\ UNCHANGED <<elements, pc, significant_elements, sorted_elements, merged,
                   i, j, merged_section, ci, section_objects>>

\* Line 233: _has_significant_styling raises KeyError; nothing catches it in
\* the core, so the call ends without a result.
RaiseKeyError ==
    /\ pc = "scan"
    /\ k <= Len(sorted_elements)
    /\ ScanRaises(current_section, sorted_elements[k])
    /\ pc' = "error"
    /\ UNCHANGED browser_vars
    /\ UNCHANGED <<elements, significant_elements, sorted_elements, k,
                   current_section, sections, merged, i, j, merged_section, ci,
                   section_objects>>

\* Lines 307-318: the final section, then the call of _merge_close_sections.
AddFinalSection ==
    /\ pc = "scan"
    /\ k > Len(sorted_elements)
    /\ sections' = SaveSection(sections, current_section)
    /\ pc' = "merge"
    /\ UNCHANGED browser_vars
    /\ UNCHANGED <<elements, significant_elements, sorted_elements, k,
                   current_section, merged, i, j, merged_section, ci,
                   section_objects>>

\* Lines 322-326.
MergeBegin ==
    /\ pc = "merge"
    /\ IF Len(sections) <= 1
       THEN merged' = sections /\ pc' = "create"
       ELSE merged' = <<>> /\ pc' = "merge_outer"
    /\ i' = 1
    /\ UNCHANGED browser_vars
    /\ UNCHANGED <<elements, significant_elements, sorted_elements, k,
                   current_section, sections, j, merged_section, ci,
                   section_objects>>

\* Lines 328-333: merged_section = current.copy(); j = i + 1.
MergeOpen ==
    /\ pc = "merge_outer"
    /\ i <= Len(sections)
    /\ merged_section' = <<sections[i]>>
    /\ j' = i + 1
    /\ pc' = "merge_inner"
    /\ UNCHANGED browser_vars
    /\ UNCHANGED <<elements, significant_elements, sorted_elements, k,
                   current_section, sections, merged, i, ci, section_objects>>

\* Lines 334-364: the copy is shallow, so the bounds dict and the elements
\* list of sections[i] are the objects the merge writes to.
MergeNext ==
    /\ pc = "merge_inner"
    /\ j <= Len(sections)
    /\ ShouldMerge(sections[i], sections[j])
    /\ LET m == MergeInto(merged_section[1], sections[j])
       IN  /\ merged_section' = <<m>>
           /\ sections' = [sections EXCEPT ![i].bounds = m.bounds,
                                           ![i].elements = m.elements]
    /\ j' = j + 1
    /\ UNCHANGED browser_vars
    /\ UNCHANGED <<elements, pc, significant_elements, sorted_elements, k,
                   current_section, merged, i, ci, section_objects>>

\* Lines 365-369: break or end of the lookahead; merged.append; i = j.
MergeAppend ==
    /\ pc = "merge_inner"
    /\ IF j > Len(sections) THEN TRUE
       ELSE ~ShouldMerge(sections[i], sections[j])
    /\ merged' = Append(merged, merged_section[1])
    /\ i' = j
    /\ pc' = "merge_outer"
    /\ UNCHANGED browser_vars
    /\ UNCHANGED <<elements, significant_elements, sorted_elements, k,
                   current_section, sections, j, merged_section, ci,
                   section_objects>>

\* Line 371, returning into _create_section_objects.
MergeReturn ==
    /\ pc = "merge_outer"
    /\ i > Len(sections)
    /\ pc' = "create"
    /\ UNCHANGED browser_vars
    /\ UNCHANGED <<elements, significant_elements, sorted_elements, k,
                   current_section, sections, merged, i, j, merged_section, ci,
                   section_objects>>

\* Lines 402-427: one iteration of the enumerate loop.
CreateSection ==
    /\ pc = "create"
    /\ ci <= Len(merged)
    /\ section_objects' = CreateStep(section_objects, ci, merged[ci])
    /\ ci' = ci + 1
    /\ UNCHANGED browser_vars
    /\ UNCHANGED <<elements, pc, significant_elements, sorted_elements, k,
                   current_section, sections, merged, i, j, merged_section>>

\* Line 429.
CreateReturn ==
    /\ pc = "create"
    /\ ci > Len(merged)
    /\ pc' = "done"
    /\ UNCHANGED browser_vars
    /\ UNCHANGED <<elements, significant_elements, sorted_elements, k,
                   current_section, sections, merged, i, j, merged_section, ci,
                   section_objects>>

Next ==
    \/ FilterElements
    \/ SortElements
    \/ StartNewSection
    \/ AddToCurrentSection
    \/ RaiseKeyError
    \/ AddFinalSection
    \/ MergeBegin
    \/ MergeOpen
    \/ MergeNext
    \/ MergeAppend
    \/ MergeReturn
    \/ CreateSection
    \/ CreateReturn

Spec == Init /\ [][Next]_vars

---------------------------------------------------------------------------
(* The browser of one SectionDetector under concurrent calls.              *)
(* Coroutines of one event loop interleave only where an await suspends:   *)
(* async_playwright().start(), chromium.launch(), new_page(), the page     *)
(* operations and page.close(). Each action is the code between two such   *)
(* points.                                                                 *)

Methods == {"detect_sections", "detect_sections_from_url"}

Calls == 1..NumCalls

\* A call that has not run yet: pw is the Playwright instance its
\* initialize() obtained, br the browser its page belongs to.
NewCall(method) == [method |-> method, at |-> "call", pw |-> None, br |-> None]

InitBrowser ==
    /\ elements = <<>>
    /\ pc = "filter"
    /\ significant_elements = <<>>
    /\ sorted_elements = <<>>
    /\ k = 1
    /\ current_section = <<>>
    /\ sections = <<>>
    /\ merged = <<>>
    /\ i = 1
    /\ j = 1
    /\ merged_section = <<>>
    /\ ci = 1
    /\ section_objects = <<>>
    /\ DetectorConstructed
    /\ calls \in [Calls -> {NewCall(m) : m \in Methods}]

\* Lines 37-38 / 71-72 and line 15: self.browser is None, so initialize() is
\* entered and suspends in async_playwright().start().
CallInitialize(c) ==
    /\ calls[c].at = "call"
    /\ browser = None
    /\ calls' = [calls EXCEPT ![c].at = "start"]
    /\ UNCHANGED <<browser, playwright, started, launched, open_browsers,
                   detector_closed>>
    /\ UNCHANGED core_vars

\* Lines 37-43 / 71-77 with self.browser set: initialize() is skipped and the
\* call suspends in self.browser.new_page().
CallNewPage(c) ==
    /\ calls[c].at = "call"
    /\ browser # None
    /\ calls' = [calls EXCEPT ![c].at = "new_page", ![c].br = browser]
    /\ UNCHANGED <<browser, playwright, started, launched, open_browsers,
                   detector_closed>>
    /\ UNCHANGED core_vars

\* Lines 15-16: start() has returned a new Playwright instance; it is stored
\* in self.playwright and the call suspends in chromium.launch().
PlaywrightStarted(c) ==
    /\ calls[c].at = "start"
    /\ started' = started + 1
    /\ playwright' = started + 1
    /\ calls' = [calls EXCEPT ![c].at = "launch", ![c].pw = started + 1]
    /\ UNCHANGED <<browser, launched, open_browsers, detector_closed>>
    /\ UNCHANGED core_vars

\* Lines 16-18 and 40-43 / 74-77: launch() has returned a new browser; it is
\* stored in self.browser, initialize() returns, and the call suspends in
\* self.browser.new_page().
BrowserLaunched(c) ==
    /\ calls[c].at = "launch"
    /\ launched' = launched + 1
    /\ open_browsers' = open_browsers \cup {launched + 1}
    /\ browser' = launched + 1
    /\ calls' = [calls EXCEPT ![c].at = "new_page", ![c].br = launched + 1]
    /\ UNCHANGED <<playwright, started, detector_closed>>
    /\ UNCHANGED core_vars

\* Lines 43-51 / 77-83: the page is open; set_content or goto, then the
\* analysis of the page, each awaited.
PageOpened(c) ==
    /\ calls[c].at = "new_page"
    /\ calls' = [calls EXCEPT ![c].at = "analyze"]
    /\ UNCHANGED <<browser, playwright, started, launched, open_browsers,
                   detector_closed>>
    /\ UNCHANGED core_vars

\* Lines 51-59 / 83-92: the result is built and the finally clause suspends
\* in page.close().
PageAnalyzed(c) ==
    /\ calls[c].at = "analyze"
    /\ calls' = [calls EXCEPT ![c].at = "page_close"]
    /\ UNCHANGED <<browser, playwright, started, launched, open_browsers,
                   detector_closed>>
    /\ UNCHANGED core_vars

\* Line 59 / 92: the page is closed and the call returns.
PageClosed(c) ==
    /\ calls[c].at = "page_close"
    /\ calls' = [calls EXCEPT ![c].at = "returned"]
    /\ UNCHANGED <<browser, playwright, started, launched, open_browsers,
                   detector_closed>>
    /\ UNCHANGED core_vars

\* Lines 20-25: close(), called once all calls have returned, closes the
\* browser self.browser refers to and stops self.playwright.
Close ==
    /\ \A c \in Calls : calls[c].at = "returned"
    /\ ~detector_closed
    /\ open_browsers' = open_browsers \ {browser}
    /\ detector_closed' = TRUE
    /\ UNCHANGED <<browser, playwright, calls, started, launched>>
    /\ UNCHANGED core_vars

NextBrowser ==
    \/ \E c \in Calls : CallInitialize(c)
    \/ \E c \in Calls : CallNewPage(c)
    \/ \E c \in Calls : PlaywrightStarted(c)
    \/ \E c \in Calls : BrowserLaunched(c)
    \/ \E c \in Calls : PageOpened(c)
    \/ \E c \in Calls : PageAnalyzed(c)
    \/ \E c \in Calls : PageClosed(c)
    \/ Close

SpecBrowser == InitBrowser /\ [][NextBrowser]_vars

\* Every input record is one the page script's own filter lets through.
AllAdmitted == \A n \in 1..Len(elements) : Admitted(elements[n])

\* The orders in which a list of n records can be handed over.
PermutationsOf(n) ==
    {p \in [1..n -> 1..n] : \A a, b \in 1..n : a # b => p[a] # p[b]}

Permuted(els, p) == [n \in 1..Len(els) |-> els[p[n]]]

---------------------------------------------------------------------------
(* The state machine computes the function *)

StepsAgreeWithFunction ==
    /\ pc = "done" => section_objects = DetectFromElements(elements)
    /\ pc = "error" => DetectFromElements(elements) = <<KeyError>>

---------------------------------------------------------------------------
(* Claims *)

\* C1: the ids of the returned Sections are exactly 1, 2, ..., N in output
\* order, also when the builder drops clusters.  Stated for the lists the
\* page script can hand over.
C1_IdsContiguous ==
    (pc = "done" /\ AllAdmitted) =>
        \A n \in 1..Len(section_objects) : section_objects[n].id = n

\* Two records of the filtered list share a rect.top.
SignificantTopsDistinct(els) ==
    LET sig == FilterSignificant(els)
    IN  \A a, b \in 1..Len(sig) : a # b => sig[a].rect.top # sig[b].rect.top

\* C2 (as claimed): any permutation of the input list yields the identical
\* Section sequence, also when several elements share the same rect.top.
C2_OrderIndependent ==
    (pc = "done" /\ AllAdmitted) =>
        \A p \in PermutationsOf(Len(elements)) :
            DetectFromElements(Permuted(elements, p)) = section_objects

\* C2 (amended): any permutation of the input list yields the identical
\* Section sequence, provided no two elements that pass the significance
\* filter share the same rect.top.
C2_OrderIndependentDistinctTops ==
    (pc = "done" /\ SignificantTopsDistinct(elements)) =>
        \A p \in PermutationsOf(Len(elements)) :
            DetectFromElements(Permuted(elements, p)) = section_objects

\* C2 witness: a list handed over out of top order, with distinct tops, that
\* yields at least two Sections.
C2_Witness ==
    /\ pc = "done"
    /\ SignificantTopsDistinct(elements)
    /\ Len(significant_elements) >= 2
    /\ significant_elements # sorted_elements
    /\ Len(section_objects) >= 2

\* The significance thresholds as the specification words them.
PassesSignificanceRules(el) ==
    /\ el.rect.width >= 80
    /\ el.rect.height >= 40
    /\ (Len(Strip(el.textContent)) >= 10 \/ el.hasImages \/ el.hasVideos)

Range(seq) == {seq[n] : n \in 1..Len(seq)}

\* The markup strings of all returned Sections.
OutputMarkup ==
    UNION {Range(section_objects[n].html_elements) : n \in 1..Len(section_objects)}

\* C3 (as claimed): the markup of an element rejected by the significance
\* filter appears in no output Section's elements list.
C3_RejectedMarkupAbsent ==
    (pc = "done" /\ AllAdmitted) =>
        \A n \in 1..Len(elements) :
            ~PassesSignificanceRules(elements[n])
                => elements[n].outerHTML \notin OutputMarkup

\* C3 (amended): every element the scan works on has width >= 80, height >= 40
\* and at least 10 characters of text or images or videos, and every markup
\* string of an output Section is the markup of such an element; a rejected
\* element's markup appears only when a passing element carries the same
\* markup string.
C3_OutputFromSignificantOnly ==
    /\ \A n \in 1..Len(significant_elements) :
            PassesSignificanceRules(significant_elements[n])
    /\ \A n \in 1..Len(sorted_elements) :
            PassesSignificanceRules(sorted_elements[n])
    /\ \A mk \in OutputMarkup :
            \E n \in 1..Len(sorted_elements) : sorted_elements[n].outerHTML = mk
    /\ \A n \in 1..Len(elements) :
            (pc = "done" /\ ~PassesSignificanceRules(elements[n])
                         /\ elements[n].outerHTML \in OutputMarkup)
                => \E m \in 1..Len(elements) :
                      /\ PassesSignificanceRules(elements[m])
                      /\ elements[m].outerHTML = elements[n].outerHTML

\* C3 witness: a rejected element with markup of its own, next to elements
\* that reach the output.
C3_Witness ==
    /\ pc = "done"
    /\ section_objects # <<>>
    /\ \E n \in 1..Len(elements) :
          /\ ~PassesSignificanceRules(elements[n])
          /\ Admitted(elements[n])
          /\ elements[n].outerHTML \notin OutputMarkup

\* The three records of Scenario A; widths, lefts and styles are left open.
IsScenarioHeader(el) ==
    /\ el.rect.top = 0 /\ el.rect.height = 100
    /\ el.textContent = "Header nav" /\ ~el.hasImages /\ ~el.hasVideos

IsScenarioHero(el) ==
    /\ el.rect.top = 500 /\ el.rect.height = 400
    /\ el.textContent = "Hero banner" /\ el.hasImages

IsScenarioFooter(el) ==
    /\ el.rect.top = 950 /\ el.rect.height = 80
    /\ el.textContent = "Copyright 2024" /\ ~el.hasImages /\ ~el.hasVideos

ScenarioA(els) ==
    /\ Len(els) = 3
    /\ \E p \in PermutationsOf(3) :
          /\ IsScenarioHeader(els[p[1]])
          /\ IsScenarioHero(els[p[2]])
          /\ IsScenarioFooter(els[p[3]])

TypesOf(objs) == [n \in 1..Len(objs) |-> objs[n].type]

\* C4 (as claimed): Scenario A yields exactly three Sections, in order
\* header, hero, footer.
C4_ScenarioAThreeSections ==
    (pc = "done" /\ ScenarioA(elements)) =>
        TypesOf(section_objects) = <<"header", "hero", "footer">>

\* C4 (amended): Scenario A, with a hero element at least 100 wide, yields
\* exactly one Section, classified hero; the header and footer records carry
\* 10 and 14 characters of text and no media, so their provisional sections
\* are discarded when the clusterer closes them.
C4_ScenarioAHeroOnly ==
    (/\ pc = "done"
     /\ ScenarioA(elements)
     /\ \A n \in 1..3 :
           IsScenarioHero(elements[n]) => elements[n].rect.width >= 100)
        => TypesOf(section_objects) = <<"hero">>

\* C4 witness: the pipeline has run on Scenario A and a header record has
\* passed the filter.
C4_Witness ==
    /\ pc = "done"
    /\ ScenarioA(elements)
    /\ Len(significant_elements) = 3
    /\ \A n \in 1..3 :
          IsScenarioHero(elements[n]) => elements[n].rect.width >= 100

\* The rules of the classifier in the order the specification lists them.
RuleHolds(c) ==
    LET text == Lower(c.content)
    IN  << c.bounds.top < 200
              /\ \E w \in {"menu", "nav", "header", "navigation"} : Contains(text, w),
           \E w \in {"footer", "copyright", "privacy", "terms"} : Contains(text, w),
           c.bounds.height > 300 /\ (c.hasImages \/ c.hasVideos),
           Len(c.content) > 100,
           c.bounds.width < 300 /\ c.bounds.height > 500,
           TRUE >>

RuleLabels == <<"header", "footer", "hero", "content", "sidebar", "section">>

FirstMatchingLabel(c) ==
    RuleLabels[CHOOSE n \in 1..6 :
                  RuleHolds(c)[n] /\ \A m \in 1..(n - 1) : ~RuleHolds(c)[m]]

\* C5: each Section appended by the builder carries the label of the first
\* rule, in the order header, footer, hero, content, sidebar, section, that
\* its cluster matches; the label is thereby a function of the cluster's
\* content, bounds, hasImages and hasVideos alone.
C5_FirstMatchWins ==
    [][Len(section_objects') > Len(section_objects) =>
          section_objects'[Len(section_objects')].type
              = FirstMatchingLabel(merged[ci])]_vars

\* C5 witness: a returned Section whose cluster matches the header, content
\* and sidebar rules at once.
C5_Witness ==
    /\ pc = "done"
    /\ \E n \in 1..Len(merged), m \in 1..Len(section_objects) :
          /\ section_objects[m].html_elements = merged[n].elements
          /\ section_objects[m].bounds = merged[n].bounds
          /\ RuleHolds(merged[n])[1]
          /\ RuleHolds(merged[n])[4]
          /\ RuleHolds(merged[n])[5]
          /\ section_objects[m].type = "header"

\* C6: the returned Sections are ordered top to bottom: consecutive Sections
\* have non-decreasing bounds.top.
C6_TopToBottom ==
    pc = "done" =>
        \A n \in 1..(Len(section_objects) - 1) :
            section_objects[n].bounds.top <= section_objects[n + 1].bounds.top

\* C6 witness: a list handed over out of top order whose clusters were partly
\* merged, returning at least two Sections.
C6_Witness ==
    /\ pc = "done"
    /\ significant_elements # sorted_elements
    /\ Len(merged) < Len(sections)
    /\ Len(section_objects) >= 2

\* C7: every returned Section has bounds.height >= 30 and bounds.width >= 100.
C7_MinimumSize ==
    \A n \in 1..Len(section_objects) :
        /\ section_objects[n].bounds.height >= 30
        /\ section_objects[n].bounds.width >= 100

\* C7 witness: Sections are returned while a cluster narrower than 100 was
\* left out.
C7_Witness ==
    /\ pc = "done"
    /\ section_objects # <<>>
    /\ \E n \in 1..Len(merged) : merged[n].bounds.width < 100

\* C8: for every returned Section, metadata.elementCount is the length of its
\* elements list and at least 1.
C8_ElementCountIsLength ==
    \A n \in 1..Len(section_objects) :
        /\ section_objects[n].metadata.elementCount
              = Len(section_objects[n].html_elements)
        /\ section_objects[n].metadata.elementCount >= 1

\* C8 witness: a returned Section of three elements, built by a fold in the
\* clusterer and a merge of two provisional sections.
C8_Witness ==
    /\ pc = "done"
    /\ Len(sections) = 2
    /\ Len(merged) = 1
    /\ Len(section_objects) = 1
    /\ section_objects[1].metadata.elementCount = 3

\* C9: the type of every returned Section is one of header, footer, hero,
\* content, sidebar, section.
C9_TypeIsKnownLabel ==
    \A n \in 1..Len(section_objects) :
        section_objects[n].type
            \in {"header", "footer", "hero", "content", "sidebar", "section"}

\* C9 witness: a returned Section that no rule but the fallback matched.
C9_Witness ==
    /\ pc = "done"
    /\ \E n \in 1..Len(section_objects) : section_objects[n].type = "section"

\* Scenario B: two filter-passing records with distinct markup at tops 0 and
\* 20, each 50 high, with the same horizontal center.
ScenarioB(els) ==
    /\ Len(els) = 2
    /\ \E a, b \in 1..2 :
          /\ els[a].rect.top = 0 /\ els[b].rect.top = 20
          /\ els[a].rect.height = 50 /\ els[b].rect.height = 50
          /\ 2 * els[a].rect.left + els[a].rect.width
                = 2 * els[b].rect.left + els[b].rect.width
          /\ els[a].outerHTML # els[b].outerHTML
          /\ PassesSignificanceRules(els[a])
          /\ PassesSignificanceRules(els[b])

\* Both records are at least 100 wide and each has more than 30 characters
\* of text or media.
BothWideAndSubstantial(els) ==
    \A n \in 1..Len(els) :
        /\ els[n].rect.width >= 100
        /\ (Len(Strip(els[n].textContent)) > 30
                \/ els[n].hasImages \/ els[n].hasVideos)

\* C10 (as claimed): Scenario B yields exactly one Section, with
\* metadata.elementCount 2.
C10_ScenarioBOneSectionOfTwo ==
    (pc = "done" /\ ScenarioB(elements)) =>
        /\ Len(section_objects) = 1
        /\ section_objects[1].metadata.elementCount = 2

\* C10 (amended): Scenario B yields exactly one Section with
\* metadata.elementCount 2, provided both elements are at least 100 wide and
\* each has more than 30 characters of text or images or videos.
C10_ScenarioBWideAndSubstantial ==
    (pc = "done" /\ ScenarioB(elements) /\ BothWideAndSubstantial(elements)) =>
        /\ Len(section_objects) = 1
        /\ section_objects[1].metadata.elementCount = 2

\* C10 witness: Scenario B run to its end on two such records that the
\* clusterer split and the merger fused.
C10_Witness ==
    /\ pc = "done"
    /\ ScenarioB(elements)
    /\ BothWideAndSubstantial(elements)
    /\ Len(sections) = 2
    /\ Len(section_objects) = 1

---------------------------------------------------------------------------
(* C11: the content preview *)

\* C11: the content of every output Section is at most 200 characters long,
\* however much text was folded or merged into its cluster.
C11_ContentAtMost200 ==
    \A n \in 1..Len(section_objects) : Len(section_objects[n].content) <= 200

\* C11 witness: a finished run with a Section cut to 200 characters from a
\* merged cluster whose accumulated text is longer.
C11_Witness ==
    /\ pc = "done"
    /\ \E n \in 1..Len(section_objects) : \E m \in 1..Len(merged) :
          /\ Len(merged[m].content) > 200
          /\ merged[m].elementCount > 1
          /\ section_objects[n].html_elements = merged[m].elements
          /\ Len(section_objects[n].content) = 200

---------------------------------------------------------------------------
(* C12: nothing significant, nothing returned *)

NoneSignificant(els) ==
    \A n \in 1..Len(els) : ~PassesSignificanceRules(els[n])

\* C12: an empty element list, and any list in which no element passes the
\* significance filter, yields an empty output list and raises no error: the
\* run goes from the filter straight to an empty result.
C12_NothingSignificantNothingOut ==
    NoneSignificant(elements) =>
        /\ pc \in {"filter", "create", "done"}
        /\ section_objects = <<>>

\* C12 witness: a finished run on a non-empty list of rejected elements, one
\* of them rejected for its height alone.
C12_Witness ==
    /\ pc = "done"
    /\ elements # <<>>
    /\ NoneSignificant(elements)
    /\ \E n \in 1..Len(elements) :
          /\ elements[n].rect.height < 40
          /\ elements[n].rect.width >= 80
          /\ elements[n].hasImages
    /\ section_objects = <<>>

---------------------------------------------------------------------------
(* C13: the open section's bounds against its member elements *)

\* The element records that make up the open section after the loop has
\* scanned els: a new section starts with its element, a fold that passes
\* the "substantial" and duplicate tests adds one.
RECURSIVE MembersFrom(_, _, _)
MembersFrom(st, mem, els) ==
    IF els = <<>> THEN mem
    ELSE LET element == Head(els)
             added == IF StartsNew(st.current, element) THEN <<element>>
                      ELSE IF IsSubstantial(element)
                                /\ ~InList(element.outerHTML, st.current[1].elements)
                           THEN Append(mem, element)
                           ELSE mem
         IN  MembersFrom(ScanStep(st, element), added, Tail(els))

\* The members of current_section while the scan is at element k.
Members ==
    MembersFrom([sections |-> <<>>, current |-> <<>>], <<>>,
                SubSeq(sorted_elements, 1, k - 1))

Covers(b, rect) ==
    /\ b.top <= rect.top
    /\ b.left <= rect.left
    /\ b.left + b.width >= rect.left + rect.width
    /\ b.top + b.height >= rect.top + rect.height

\* C13 (as claimed): at every point of the clustering scan the bounds of the
\* open section are a bounding box of all its member elements, also after a
\* fold of an element that lies to the left of the bounds.
C13_BoundsCoverMembers ==
    (pc = "scan" /\ current_section # <<>> /\ AllAdmitted) =>
        \A n \in 1..Len(Members) :
            Covers(current_section[1].bounds, Members[n].rect)

---------------------------------------------------------------------------
(* C14: which closed sections the clusterer keeps *)

\* C14: a provisional section that the clusterer closes, because a later
\* element starts a new section or because the input ends, is appended to
\* the section list exactly when its stripped content is longer than 30
\* characters or it has images or it has videos; otherwise it is dropped.
C14_ClosedSectionKeptIffSubstantial ==
    [][((StartNewSection \/ AddFinalSection) /\ current_section # <<>>) =>
          LET closed == current_section[1]
          IN  IF Len(Strip(closed.content)) > 30
                    \/ closed.hasImages \/ closed.hasVideos
              THEN sections' = Append(sections, closed)
              ELSE sections' = sections]_vars

\* C14 witness: the scan has ended with an earlier section kept and the last
\* one, 30 characters or less and without media, dropped.
C14_Witness ==
    /\ pc = "merge"
    /\ current_section # <<>>
    /\ Len(Strip(current_section[1].content)) <= 30
    /\ ~current_section[1].hasImages /\ ~current_section[1].hasVideos
    /\ Len(sections) >= 1
    /\ \A n \in 1..Len(sections) :
          sections[n].elements # current_section[1].elements

---------------------------------------------------------------------------
(* C15: the bounds of a merged section *)

Bottom(b) == b.top + b.height

\* C15 (as claimed): when the merger merges a next section into the current
\* one, the merged height is not smaller than the current section's height
\* before the merge, and the merged bottom edge is not above the bottom edge
\* of the current section nor that of the next section, also when the next
\* section lies vertically inside the current one.
C15_MergeExtendsBounds ==
    [][(MergeNext /\ AllAdmitted) =>
          LET before == merged_section[1].bounds
              inner  == sections[j].bounds
              after  == merged_section'[1].bounds
          IN  /\ after.height >= before.height
              /\ Bottom(after) >= Bottom(before)
              /\ Bottom(after) >= Bottom(inner)]_vars

---------------------------------------------------------------------------
(* C16: when an element starts a new section *)

\* The conditions as the specification words them, for an open section cur;
\* centers and the 0.4 factor are scaled to integers (both sides times 10).
GapRule(cur, el) == el.rect.top - (cur.bounds.top + cur.bounds.height) > 100

CenterRule(cur, el) ==
    LET gap == el.rect.top - (cur.bounds.top + cur.bounds.height)
        current_center2 == 2 * cur.bounds.left + cur.bounds.width
        element_center2 == 2 * el.rect.left + el.rect.width
    IN  /\ 50 < gap /\ gap <= 100
        /\ 5 * Abs(current_center2 - element_center2)
              > 4 * Max(el.rect.width, cur.bounds.width)

MediaRule(cur, el) ==
    /\ (cur.hasImages \/ cur.hasVideos) # (el.hasImages \/ el.hasVideos)
    /\ (Strip(el.textContent) # "" \/ el.hasImages \/ el.hasVideos)

StyleRule(el) ==
    \/ el.styles.marginTop > 20 \/ el.styles.marginBottom > 20
    \/ el.styles.paddingTop > 20 \/ el.styles.paddingBottom > 20
    \/ el.styles.backgroundColor \notin {"transparent", "rgba(0, 0, 0, 0)"}
    \/ el.styles.borderTop # "0px none" \/ el.styles.borderBottom # "0px none"

AnyRule(current, el) ==
    IF current = <<>> THEN TRUE
    ELSE \/ GapRule(current[1], el)
         \/ CenterRule(current[1], el)
         \/ MediaRule(current[1], el)
         \/ StyleRule(el)

\* C16: during the clustering scan an element starts a new section if and
\* only if no section is open, or the gap is over 100, or the gap is in
\* (50, 100] with the centers further apart than 0.4 of the larger width, or
\* the media status differs and the element has text or media, or the
\* element's style is a separator.
C16_StartsNewIffAnyRule ==
    [][(pc = "scan" /\ k' = k + 1) =>
          (StartNewSection <=> AnyRule(current_section, sorted_elements[k]))]_vars

\* The state of the scan before element k - 1 was scanned.
BeforeLast ==
    ScanAll([sections |-> <<>>, current |-> <<>>],
            SubSeq(sorted_elements, 1, k - 2))

\* C16 witness: the element scanned last met an open section and started a
\* new one on the center rule alone.
C16_Witness ==
    /\ pc = "scan"
    /\ k >= 3
    /\ BeforeLast.current # <<>>
    /\ LET cur == BeforeLast.current[1]
           el  == sorted_elements[k - 1]
       IN  /\ CenterRule(cur, el)
           /\ ~GapRule(cur, el) /\ ~MediaRule(cur, el) /\ ~StyleRule(el)
           /\ current_section[1].elements = <<el.outerHTML>>
           /\ current_section[1].elementCount = 1

---------------------------------------------------------------------------
(* C17: records that lack a field *)

\* C17 (as claimed): when a record of the input list lacks its style
\* summary, the core fails with an error instead of returning Sections,
\* wherever the record sits in the list, also when it is the first or the
\* only significant element: no run that returns has such a record among
\* its significant elements.
C17_MissingStylesRaises ==
    (pc = "done" /\ AllAdmitted) =>
        \A n \in 1..Len(elements) :
            PassesSignificanceRules(elements[n]) => "styles" \in DOMAIN elements[n]

---------------------------------------------------------------------------
(* C18: media status inside a clusterer section *)

\* C18: every section the clusterer builds is media-homogeneous: all its
\* member elements have media (images or videos) or none has, and the
\* section's accumulated media status is that of its first element.
C18_MediaHomogeneous ==
    (pc = "scan" /\ current_section # <<>>) =>
        LET first == Members[1].hasImages \/ Members[1].hasVideos
        IN  /\ \A n \in 1..Len(Members) :
                  (Members[n].hasImages \/ Members[n].hasVideos) = first
            /\ (current_section[1].hasImages \/ current_section[1].hasVideos)
                  = first

\* C18 witness: an open section with media that holds two elements, and
\* an earlier section without media.
C18_Witness ==
    /\ pc = "scan"
    /\ current_section # <<>>
    /\ Len(Members) >= 2
    /\ current_section[1].hasImages
    /\ current_section[1].hasVideos
    /\ \E n \in 1..Len(sections) :
          ~sections[n].hasImages /\ ~sections[n].hasVideos

---------------------------------------------------------------------------
(* C19: the gaps the merger leaves *)

---------------------------------------------------------------------------
(* C20: one browser per detector *)

\* C20 (as claimed): for a detector whose browser is not yet initialised,
\* however its detect_sections / detect_sections_from_url calls interleave
\* at their await points, Playwright is started at most once and the
\* browser is launched at most once, every page is opened on that one
\* browser, and after close() no launched browser is left open.
C20_BrowserLaunchedOnce ==
    /\ started <= 1
    /\ launched <= 1
    /\ \A c \in Calls : calls[c].br # None => calls[c].br = 1
    /\ detector_closed => open_browsers = {}

===========================================================================
